---- MODULE Spec2Model ----
(***************************************************************************)
(* Model of www/transwarp/db.py: the thread-local database context, the    *)
(* lazy connection, the nestable connection and transaction scopes and the *)
(* SQL execution layer, over an abstract DB-API driver whose calls may     *)
(* succeed or raise.                                                       *)
(***************************************************************************)
EXTENDS Integers, Sequences, FiniteSets, TLC

\* ---------------------------------------------------------------- bounds
MaxDepth == 2        \* scopes nested on one thread
MaxHandles == 1      \* raw connections the driver hands out per running thread
MaxWrites == 1       \* write statements the database accepts per running thread

Threads == {1, 2}
UserExc == {"E"}     \* exceptions raised by caller-supplied bodies

None == <<>>
NoErr == "none"

VARIABLES
  threads,     \* the threads that run
  engine,      \* the module global `engine`: 0 is None, else the _Engine object,
               \* objects numbered in the order create_engine builds them
  ctx,         \* _db_ctx, one value per thread (threading.local)
  stack,       \* per thread: the scopes entered and not yet exited
  exc,         \* per thread: the exception propagating, or NoErr
  committed,   \* the database: the writes that are durably committed
  nh,          \* raw handles the driver has handed out
  nw,          \* writes the database has accepted
  cursors,     \* per thread: cursors opened and not closed
  aborted,     \* writes of transaction scopes left by an exception (history)
  last         \* per thread: what the last call did (history)

vars ==
  <<threads, engine, ctx, stack, exc, committed, nh, nw, cursors, aborted, last>>

\* ------------------------------------------------------------- the driver
\* One driver call recorded in order of issue. h = 0: no raw handle involved.
Ev(name, h, ok, depth) == [op |-> name, h |-> h, ok |-> ok, depth |-> depth]

\* The outcome the driver gives each call of one handler.
DriverOutcomes ==
  [connect : BOOLEAN, cursor : BOOLEAN, execute : BOOLEAN, fetch : BOOLEAN,
   commit : BOOLEAN, rollback : BOOLEAN, close : BOOLEAN]

\* The driver calls a scope exit can reach, a read can reach, a write can reach.
ExitOutcomes ==
  {d \in DriverOutcomes : d.connect /\ d.cursor /\ d.execute /\ d.fetch}
ReadOutcomes == {d \in DriverOutcomes : d.commit /\ d.rollback}
WriteOutcomes == {d \in DriverOutcomes : d.fetch /\ d.rollback}

\* ---------------------------------------------- a handler's working state
\* c: this thread's _db_ctx; db: committed writes; log: driver calls issued;
\* err: the exception the last call raised.
Lazy(m) == m.c.connection[1]
HasRaw(m) == m.c.connection # None /\ Lazy(m).connection # None
Raw(m) == Lazy(m).connection[1]
RawH(m) == IF HasRaw(m) THEN Raw(m).h ELSE 0
WithRaw(m, r) == [m EXCEPT !.c.connection = << [connection |-> <<r>>] >>]
Logged(m, name, h, ok) ==
  [m EXCEPT !.log = Append(@, Ev(name, h, ok, m.c.transactions))]
Throw(m, e) == [m EXCEPT !.err = e]
Clear(m) == [m EXCEPT !.err = NoErr]

\* ------------------------------------------------------ _LazyConnection
NewLazyConnection == [connection |-> None]

\* if self.connection is None: self.connection = engine.connect()
LazyConnect(m, d) ==
  IF HasRaw(m) THEN m
  ELSE IF m.c.connection = None \/ engine = 0
    THEN Throw(m, "AttributeError(connect)")
  ELSE IF d.connect /\ m.nh < MaxHandles * Cardinality(threads)
    THEN Logged([WithRaw(m, [h |-> m.nh + 1, closed |-> FALSE, pending |-> {}])
                   EXCEPT !.nh = @ + 1],
                "connect", m.nh + 1, TRUE)
    ELSE Throw(Logged(m, "connect", 0, FALSE), "ConnectionError")

\* return self.connection.cursor()
RawCursor(m, d) ==
  IF m.err # NoErr THEN m
  ELSE IF ~Raw(m).closed /\ d.cursor
    THEN Logged([m EXCEPT !.cur = @ + 1], "cursor", RawH(m), TRUE)
    ELSE Throw(Logged(m, "cursor", RawH(m), FALSE), "CursorError")

LazyCursor(m, d) == RawCursor(LazyConnect(m, d), d)

LazyCommit(m, d) ==
  IF ~HasRaw(m)
    THEN Throw(Logged(m, "commit", 0, FALSE), "AttributeError(commit)")
  ELSE IF ~Raw(m).closed /\ d.commit
    THEN Logged([WithRaw(m, [Raw(m) EXCEPT !.pending = {}])
                   EXCEPT !.db = @ \cup Raw(m).pending],
                "commit", RawH(m), TRUE)
    ELSE Throw(Logged(m, "commit", RawH(m), FALSE), "CommitError")

\* Mutant: rollback on an absent raw handle does nothing and succeeds.
LazyRollback_Silent(m, d) ==
  IF ~HasRaw(m) THEN Logged(m, "rollback", 0, TRUE)
  ELSE IF ~Raw(m).closed /\ d.rollback
    THEN Logged(WithRaw(m, [Raw(m) EXCEPT !.pending = {}]),
                "rollback", RawH(m), TRUE)
    ELSE Throw(Logged(m, "rollback", RawH(m), FALSE), "RollbackError")

LazyRollback(m, d) ==
  IF ~HasRaw(m)
    THEN Throw(Logged(m, "rollback", 0, FALSE), "AttributeError(rollback)")
  ELSE IF ~Raw(m).closed /\ d.rollback
    THEN Logged(WithRaw(m, [Raw(m) EXCEPT !.pending = {}]),
                "rollback", RawH(m), TRUE)
    ELSE Throw(Logged(m, "rollback", RawH(m), FALSE), "RollbackError")

\* close() ends the session whether or not it raises: the handle is unusable
\* afterwards and the server discards what was not committed.
RawClosed(m) == WithRaw(m, [Raw(m) EXCEPT !.closed = TRUE, !.pending = {}])

LazyCleanup(m, d) ==
  IF m.c.connection = None THEN Throw(m, "AttributeError(cleanup)")
  ELSE IF ~HasRaw(m) THEN m
  ELSE IF ~Raw(m).closed /\ d.close
    THEN Logged(RawClosed(m), "close", RawH(m), TRUE)
    ELSE Throw(Logged(RawClosed(m), "close", RawH(m), FALSE), "CloseError")

\* --------------------------------------------------------------- _DBCtx
NewDBCtx == [connection |-> None, transactions |-> 0]

is_init(c) == c.connection # None

CtxInit(m) ==
  Logged([m EXCEPT !.c = [connection |-> <<NewLazyConnection>>,
                          transactions |-> 0]],
         "init", 0, TRUE)

\* self.connection = None, reached only when cleanup() did not raise.
CtxForget(m) == IF m.err # NoErr THEN m ELSE [m EXCEPT !.c.connection = None]

CtxCleanup(m, d) ==
  CtxForget(LazyCleanup(Logged(m, "cleanup", RawH(m), TRUE), d))

\* try: A finally: B -- B runs after A whatever A raised; what B raises wins.
Finally(mA, mB) == IF mB.err # NoErr THEN mB ELSE Throw(mB, mA.err)

\* ------------------------------------------------------- _ConnectionCtx
\* __enter__ of both scopes starts the same way: initialise the context if
\* nobody did, and remember having done so.
\* Mutant: every scope takes itself for the one that initialised the context.
ConnectionCtx_enter_AlwaysOwner(m) ==
  [m |-> IF ~is_init(m.c) THEN CtxInit(m) ELSE m, should_cleanup |-> TRUE]

ConnectionCtx_enter(m) ==
  IF ~is_init(m.c) THEN [m |-> CtxInit(m), should_cleanup |-> TRUE]
  ELSE [m |-> m, should_cleanup |-> FALSE]

\* Mutant: every exit cleans up, also that of a scope that did not initialise.
ConnectionCtx_exit_AlwaysCleanup(m, should_cleanup, d) == CtxCleanup(m, d)

ConnectionCtx_exit(m, should_cleanup, d) ==
  IF should_cleanup THEN CtxCleanup(m, d) ELSE m

\* ------------------------------------------------------ _TransactionCtx
\* Mutant: entering a transaction scope does not count it.
TransactionCtx_enter_NoCount(m) == ConnectionCtx_enter(m)

TransactionCtx_enter(m) ==
  [ConnectionCtx_enter(m) EXCEPT !.m.c.transactions = @ + 1]

\* except: rollback(); raise -- e is the commit's failure.
Reraise(m, e) == IF m.err # NoErr THEN m ELSE Throw(m, e)

CommitFailed(m, d) ==
  IF m.err = NoErr THEN m ELSE Reraise(LazyRollback(Clear(m), d), m.err)

TransactionCtx_commit(m, d) == CommitFailed(LazyCommit(m, d), d)

\* Mutant: the rollback path commits.
TransactionCtx_rollback_Commits(m, d) == LazyCommit(m, d)

TransactionCtx_rollback(m, d) == LazyRollback(m, d)

\* _db_ctx.transactions = _db_ctx.transactions - 1
Decrement(m) == [m EXCEPT !.c.transactions = @ - 1]

\* The try block of __exit__.
TxnDecide(m, exctype, d) ==
  IF m.c.transactions = 0
    THEN IF exctype = NoErr THEN TransactionCtx_commit(m, d)
         ELSE TransactionCtx_rollback(m, d)
    ELSE m

\* The finally block of __exit__, after the try block ended in mA.
TxnFinally(mA, should_cleanup, d) ==
  Finally(mA, IF should_cleanup THEN CtxCleanup(Clear(mA), d) ELSE Clear(mA))

\* Mutant: the exit of any scope left by an exception rolls back.
TxnDecide_OwnOutcome(m, exctype, d) ==
  IF exctype # NoErr THEN TransactionCtx_rollback(m, d)
  ELSE IF m.c.transactions = 0 THEN TransactionCtx_commit(m, d)
  ELSE m

TransactionCtx_exit_OwnOutcome(m, should_cleanup, exctype, d) ==
  TxnFinally(TxnDecide_OwnOutcome(Decrement(m), exctype, d), should_cleanup, d)

\* Mutant: every exit commits or rolls back, whatever the nesting depth.
TransactionCtx_exit_AnyDepth(m, should_cleanup, exctype, d) ==
  TxnFinally(IF exctype = NoErr THEN TransactionCtx_commit(Decrement(m), d)
             ELSE TransactionCtx_rollback(Decrement(m), d),
             should_cleanup, d)

\* Mutant: the outermost exit commits whether or not the body raised.
TransactionCtx_exit_AlwaysCommit(m, should_cleanup, exctype, d) ==
  TxnFinally(TxnDecide(Decrement(m), NoErr, d), should_cleanup, d)

\* Mutant: no finally: the cleanup is skipped when commit or rollback raised.
SkipCleanupOnError(mA, should_cleanup, d) ==
  IF mA.err = NoErr /\ should_cleanup THEN CtxCleanup(mA, d) ELSE mA

TransactionCtx_exit_NoFinally(m, should_cleanup, exctype, d) ==
  SkipCleanupOnError(TxnDecide(Decrement(m), exctype, d), should_cleanup, d)

TransactionCtx_exit(m, should_cleanup, exctype, d) ==
  TxnFinally(TxnDecide(Decrement(m), exctype, d), should_cleanup, d)

\* -------------------------------------------------- SQL execution layer
CursorClose(m) ==
  Logged([m EXCEPT !.cur = @ - 1], "cursor_close", RawH(m), TRUE)

\* finally: if cursor: cursor.close() -- after the try block ended in m.
CloseAfter(m) == Finally(m, CursorClose(Clear(m)))

\* What the call returns when nothing raised.
Return(m, v) == IF m.err # NoErr THEN m ELSE [m EXCEPT !.ret = v]

\* cursor.execute(sql, args) of a read.
ExecuteRead(m, d) ==
  IF d.execute THEN Logged(m, "execute", RawH(m), TRUE)
  ELSE Throw(Logged(m, "execute", RawH(m), FALSE), "ExecuteError")

\* names, fetchone() / fetchall(), Dict(names, values).
\* shape: 0 when no row matched, else the number of columns of the row.
Fetch(m, first, shape, d) ==
  IF m.err # NoErr THEN m
  ELSE IF ~d.fetch THEN Throw(m, "FetchError")
  ELSE IF ~first THEN Return(m, "list")
  ELSE IF shape = 0 THEN Return(m, "None")
  ELSE Return(m, IF shape = 1 THEN "Dict1" ELSE "Dict2")

\* The try/finally of _select once cursor() ended in m.
SelectWithCursor(m, first, shape, d) ==
  IF m.err # NoErr THEN m
  ELSE CloseAfter(Fetch(ExecuteRead(m, d), first, shape, d))

select_body(m, first, shape, d) ==
  SelectWithCursor(LazyCursor(m, d), first, shape, d)

\* len(result) != 1, result.values()[0]
OneColumn(m) ==
  IF m.err # NoErr THEN m
  ELSE IF m.ret = "None" THEN Throw([m EXCEPT !.ret = "none"], "TypeError")
  ELSE IF m.ret # "Dict1"
    THEN Throw([m EXCEPT !.ret = "none"], "MultiColumnsError")
  ELSE Return(m, "value")

select_int_body(m, shape, d) == OneColumn(select_body(m, TRUE, shape, d))

\* cursor.execute(sql, args) of a write: the statement joins what the raw
\* connection has pending.
ExecuteWrite(m, d) ==
  IF d.execute /\ m.nw < MaxWrites * Cardinality(threads)
    THEN Logged([WithRaw(m, [Raw(m) EXCEPT !.pending = @ \cup {m.nw + 1}])
                   EXCEPT !.nw = @ + 1],
                "execute", RawH(m), TRUE)
    ELSE Throw(Logged(m, "execute", RawH(m), FALSE), "ExecuteError")

\* if _db_ctx.transactions == 0: _db_ctx.connection.commit()
Autocommit(m, d) ==
  IF m.err # NoErr THEN m
  ELSE IF m.c.transactions = 0 THEN LazyCommit(m, d)
  ELSE m

\* Mutant: the write commits whatever the transaction depth.
AutocommitAlways(m, d) == IF m.err # NoErr THEN m ELSE LazyCommit(m, d)

UpdateWithCursor_AlwaysCommit(m, d) ==
  IF m.err # NoErr THEN m
  ELSE CloseAfter(Return(AutocommitAlways(ExecuteWrite(m, d), d), "rowcount"))

update_body_AlwaysCommit(m, d) ==
  UpdateWithCursor_AlwaysCommit(LazyCursor(m, d), d)

\* Mutant: no finally: the cursor is closed only when nothing raised.
CloseOnSuccess(m) == IF m.err # NoErr THEN m ELSE CursorClose(m)

UpdateWithCursor_CloseOnSuccess(m, d) ==
  IF m.err # NoErr THEN m
  ELSE CloseOnSuccess(Return(Autocommit(ExecuteWrite(m, d), d), "rowcount"))

update_body_CloseOnSuccess(m, d) ==
  UpdateWithCursor_CloseOnSuccess(LazyCursor(m, d), d)

\* The try/finally of _update once cursor() ended in m.
UpdateWithCursor(m, d) ==
  IF m.err # NoErr THEN m
  ELSE CloseAfter(Return(Autocommit(ExecuteWrite(m, d), d), "rowcount"))

update_body(m, d) == UpdateWithCursor(LazyCursor(m, d), d)

\* The functions @with_connection decorates, called by name.
Decorated(func, m, shape, d) ==
  CASE func = "select_one" -> select_body(m, TRUE, shape, d)
    [] func = "select_int" -> select_int_body(m, shape, d)
    [] func = "select" -> select_body(m, FALSE, shape, d)
    [] func = "_update" -> update_body(m, d)

\* Mutant: the decorator calls the function without the scope around it.
with_connection_NoScope(func, m, shape, d) == Decorated(func, m, shape, d)

\* The exit of the with statement, after the body ended in mA.
WithExit(mA, should_cleanup, d) ==
  Finally(mA, ConnectionCtx_exit(Clear(mA), should_cleanup, d))

\* with _ConnectionCtx(): return func(...)
with_connection(func, m, shape, d) ==
  WithExit(Decorated(func, ConnectionCtx_enter(m).m, shape, d),
           ConnectionCtx_enter(m).should_cleanup, d)

select_one(m, shape, d) == with_connection("select_one", m, shape, d)

select_int(m, shape, d) == with_connection("select_int", m, shape, d)

select(m, shape, d) == with_connection("select", m, shape, d)

update(m, d) == with_connection("_update", m, 0, d)

\* ncols: the number of keyword arguments; zip(*{}) cannot be unpacked.
insert(m, ncols, d) ==
  IF ncols = 0 THEN Throw(m, "ValueError") ELSE update(m, d)

\* --------------------------------------------------------------- state
\* A scope entered and not yet exited, with what happened inside it so far:
\* opens, closes: raw connections opened, close() calls (kept for the top-level
\* scope); phys: commits and rollbacks issued on a raw connection, writes:
\* write statements executed, raised: its body, or the body of a transaction
\* scope inside it, raised (kept for the outermost transaction scope);
\* nested: a scope was entered inside it (kept for both).
Frame(kind, should_cleanup) ==
  [kind |-> kind, should_cleanup |-> should_cleanup,
   opens |-> 0, closes |-> 0, phys |-> 0, writes |-> {},
   raised |-> FALSE, nested |-> FALSE]

NoFrame == Frame("none", FALSE)

Called(act, excIn, excOut, c, log, frame, ret) ==
  [act |-> act, excIn |-> excIn, excOut |-> excOut,
   initIn |-> is_init(c), depthIn |-> c.transactions,
   rawIn |-> IF is_init(c) /\ c.connection[1].connection # None
             THEN c.connection[1].connection[1].h ELSE 0,
   log |-> log, frame |-> frame, ret |-> ret]

Init ==
  /\ threads = {1}
  /\ engine = 0
  /\ ctx = [t \in Threads |-> NewDBCtx]
  /\ stack = [t \in Threads |-> <<>>]
  /\ exc = [t \in Threads |-> NoErr]
  /\ committed = {}
  /\ nh = 0
  /\ nw = 0
  /\ cursors = [t \in Threads |-> 0]
  /\ aborted = {}
  /\ last = [t \in Threads |-> Called("none", NoErr, NoErr, NewDBCtx, <<>>, NoFrame, "none")]

\* threading.local: the attributes of _db_ctx that thread t sees are its own.
Shared(t) == 1

Own(t) == t

\* The working state a handler of thread t starts from.
Enter(t) ==
  [c |-> ctx[Own(t)], db |-> committed, nh |-> nh, nw |-> nw, cur |-> cursors[t],
   log |-> <<>>, err |-> NoErr, ret |-> "none"]

Count(log, name, ok) ==
  Cardinality({i \in 1..Len(log) : log[i].op = name /\ log[i].ok = ok})

\* The commits and rollbacks of a log, and those issued on a raw connection.
CR(log) == SelectSeq(log, LAMBDA e : e.op \in {"commit", "rollback"})
Phys(log) == SelectSeq(CR(log), LAMBDA e : e.h # 0)

\* Scope i of the scopes s is the top-level one; is the outermost transaction
\* scope.
IsTop(s, i) == i = 1
IsOuterTxn(s, i) ==
  s[i].kind = "txn" /\ \A j \in 1..(i - 1) : s[j].kind # "txn"

\* What a call of thread t adds to the record of scope i of the scopes s that
\* enclose it; r: the body of a transaction scope exited by the call raised.
\* The top-level scope records opens and closes, the outermost transaction
\* scope phys, writes and raised.
Touch(s, i, m, r) ==
  LET f == s[i]
      f1 == IF IsTop(s, i)
              THEN [f EXCEPT !.opens = @ + Count(m.log, "connect", TRUE),
                             !.closes = @ + Count(m.log, "close", TRUE)
                                          + Count(m.log, "close", FALSE)]
              ELSE f
  IN IF IsOuterTxn(s, i)
       THEN [f1 EXCEPT !.phys = @ + Len(Phys(m.log)),
                       !.writes = @ \cup ((nw + 1)..m.nw),
                       !.raised = @ \/ r]
       ELSE f1

\* The state after thread t ran a handler that ended in working state m, left
\* the scopes s entered and has the exception e propagating; a: the writes of
\* an outermost transaction scope the handler left while one was propagating.
Leave(t, m, s, e, r, a) ==
  /\ ctx' = [ctx EXCEPT ![Own(t)] = m.c]
  /\ committed' = m.db
  /\ nh' = m.nh
  /\ nw' = m.nw
  /\ cursors' = [cursors EXCEPT ![t] = m.cur]
  /\ stack' = [stack EXCEPT ![t] = [i \in 1..Len(s) |-> Touch(s, i, m, r)]]
  /\ exc' = [exc EXCEPT ![t] = e]
  /\ aborted' = aborted \cup a
  /\ UNCHANGED <<threads, engine>>

\* The enclosing scopes once a scope is entered inside them.
Nest(s) ==
  [i \in 1..Len(s) |->
     IF IsTop(s, i) \/ IsOuterTxn(s, i) THEN [s[i] EXCEPT !.nested = TRUE]
     ELSE s[i]]

\* ------------------------------------------------------------- actions
\* with connection(): ...   (entry)
ConnEnter(t) ==
  /\ exc[t] = NoErr
  /\ Len(stack[t]) < MaxDepth
  /\ LET e == ConnectionCtx_enter(Enter(t))
     IN /\ Leave(t, e.m, Append(Nest(stack[t]), Frame("conn", e.should_cleanup)),
                 NoErr, FALSE, {})
        /\ last' = [last EXCEPT ![t] =
             Called("conn_enter", NoErr, NoErr, ctx[Own(t)], e.m.log, NoFrame, "none")]

\* with connection(): ...   (exit, normal or unwinding)
ConnExit(t) ==
  /\ stack[t] # <<>>
  /\ stack[t][Len(stack[t])].kind = "conn"
  /\ \E m \in {ConnectionCtx_exit(Enter(t), stack[t][Len(stack[t])].should_cleanup, d) :
                 d \in ExitOutcomes} :
       LET f == stack[t][Len(stack[t])]
           e == IF m.err # NoErr THEN m.err ELSE exc[t]
       IN /\ Leave(t, m, SubSeq(stack[t], 1, Len(stack[t]) - 1), e, FALSE, {})
          /\ last' = [last EXCEPT ![t] =
               Called("conn_exit", exc[t], e, ctx[Own(t)], m.log,
                      Touch(stack[t], Len(stack[t]), m, exc[t] # NoErr), "none")]

\* with transaction(): ...   (entry)
TxnEnter(t) ==
  /\ exc[t] = NoErr
  /\ Len(stack[t]) < MaxDepth
  /\ LET e == TransactionCtx_enter(Enter(t))
     IN /\ Leave(t, e.m, Append(Nest(stack[t]), Frame("txn", e.should_cleanup)),
                 NoErr, FALSE, {})
        /\ last' = [last EXCEPT ![t] =
             Called("txn_enter", NoErr, NoErr, ctx[Own(t)], e.m.log, NoFrame, "none")]

\* with transaction(): ...   (exit, normal or unwinding)
TxnExit(t) ==
  /\ stack[t] # <<>>
  /\ stack[t][Len(stack[t])].kind = "txn"
  /\ \E m \in {TransactionCtx_exit(Enter(t), stack[t][Len(stack[t])].should_cleanup, exc[t], d) :
                 d \in ExitOutcomes} :
       LET f == stack[t][Len(stack[t])]
           e == IF m.err # NoErr THEN m.err ELSE exc[t]
       IN /\ Leave(t, m, SubSeq(stack[t], 1, Len(stack[t]) - 1), e, exc[t] # NoErr,
                   IF ctx[Own(t)].transactions = 1 /\ exc[t] # NoErr THEN f.writes ELSE {})
          /\ last' = [last EXCEPT ![t] =
               Called("txn_exit", exc[t], e, ctx[Own(t)], m.log,
                      Touch(stack[t], Len(stack[t]), m, exc[t] # NoErr), "none")]

\* The body of the innermost scope raises.
Raise(t) ==
  /\ exc[t] = NoErr
  /\ stack[t] # <<>>
  /\ \E e \in UserExc :
       /\ Leave(t, Enter(t), stack[t], e, FALSE, {})
       /\ last' = [last EXCEPT ![t] =
            Called("raise", NoErr, e, ctx[Own(t)], <<>>, NoFrame, "none")]

\* The code around the innermost exited scope catches what propagates.
Catch(t) ==
  /\ exc[t] # NoErr
  /\ stack' = [stack EXCEPT ![t] = stack[t]]
  /\ exc' = [exc EXCEPT ![t] = NoErr]
  /\ last' = [last EXCEPT ![t] =
       Called("catch", exc[t], NoErr, ctx[Own(t)], <<>>, NoFrame, "none")]
  /\ UNCHANGED <<threads, engine, ctx, committed, nh, nw, cursors, aborted>>

\* A statement call that ended in working state m.
Statement(t, act, m) ==
  /\ Leave(t, m, stack[t], m.err, FALSE, {})
  /\ last' = [last EXCEPT ![t] =
       Called(act, NoErr, m.err, ctx[Own(t)], m.log, NoFrame,
              IF m.err # NoErr THEN "none" ELSE m.ret)]

SelectOne(t) ==
  /\ exc[t] = NoErr
  /\ \E m \in {select_one(Enter(t), shape, d) : shape \in 0..2, d \in ReadOutcomes} :
       Statement(t, "select_one", m)

SelectInt(t) ==
  /\ exc[t] = NoErr
  /\ \E m \in {select_int(Enter(t), shape, d) : shape \in 0..2, d \in ReadOutcomes} :
       Statement(t, "select_int", m)

Select(t) ==
  /\ exc[t] = NoErr
  /\ \E m \in {select(Enter(t), shape, d) : shape \in 0..2, d \in ReadOutcomes} :
       Statement(t, "select", m)

Update(t) ==
  /\ exc[t] = NoErr
  /\ \E m \in {update(Enter(t), d) : d \in WriteOutcomes} :
       Statement(t, "update", m)

Insert(t) ==
  /\ exc[t] = NoErr
  /\ \E m \in {insert(Enter(t), ncols, d) : ncols \in 0..2, d \in WriteOutcomes} :
       Statement(t, "insert", m)

\* Mutant: create_engine installs a new engine whether or not one is installed.
create_engine_Replace(e) == [engine |-> e + 1, err |-> NoErr]

\* create_engine: refuses when an engine is installed, else installs a new one.
create_engine(e) ==
  IF e # 0 THEN [engine |-> e, err |-> "DBError"]
  ELSE [engine |-> e + 1, err |-> NoErr]

CreateEngine(t) ==
  /\ exc[t] = NoErr
  /\ LET r == create_engine(engine)
     IN /\ engine' = r.engine
        /\ exc' = [exc EXCEPT ![t] = r.err]
        /\ last' = [last EXCEPT ![t] =
             Called("create_engine", NoErr, r.err, ctx[Own(t)], <<>>, NoFrame, "none")]
        /\ UNCHANGED <<threads, ctx, stack, committed, nh, nw, cursors, aborted>>

Next ==
  \/ \E t \in threads : ConnEnter(t)
  \/ \E t \in threads : ConnExit(t)
  \/ \E t \in threads : TxnEnter(t)
  \/ \E t \in threads : TxnExit(t)
  \/ \E t \in threads : Raise(t)
  \/ \E t \in threads : Catch(t)
  \/ \E t \in threads : SelectOne(t)
  \/ \E t \in threads : SelectInt(t)
  \/ \E t \in threads : Select(t)
  \/ \E t \in threads : Update(t)
  \/ \E t \in threads : Insert(t)
  \/ \E t \in threads : CreateEngine(t)

Spec == Init /\ [][Next]_vars

\* ----------------------------------------------------- several threads
\* Every thread of Threads runs; the engine was created at start-up, before
\* the threads were started.
InitThreads ==
  /\ threads = Threads
  /\ engine = create_engine(0).engine
  /\ ctx = [t \in Threads |-> NewDBCtx]
  /\ stack = [t \in Threads |-> <<>>]
  /\ exc = [t \in Threads |-> NoErr]
  /\ committed = {}
  /\ nh = 0
  /\ nw = 0
  /\ cursors = [t \in Threads |-> 0]
  /\ aborted = {}
  /\ last = [t \in Threads |-> Called("none", NoErr, NoErr, NewDBCtx, <<>>, NoFrame, "none")]

\* The threads interleave call by call; each touches the shared database only
\* through its own raw connection. Nothing catches what leaves a thread's
\* outermost scope: the thread ends there.
NextThreads ==
  \/ \E t \in threads : TxnEnter(t)
  \/ \E t \in threads : TxnExit(t)
  \/ \E t \in threads : Raise(t)
  \/ \E t \in threads : Update(t)

SpecThreads == InitThreads /\ [][NextThreads]_vars

\* ------------------------------------------------- init() called directly
\* _db_ctx.init() called by code that did not ask is_init() first: on a
\* context not initialised, or on one whose connection is in use (the driver
\* hands out a bounded number of raw connections, which bounds these calls);
\* outside every scope, or inside the deepest nesting modelled.
DirectInit(t) ==
  /\ exc[t] = NoErr
  /\ ~is_init(ctx[Own(t)]) \/ HasRaw(Enter(t))
  /\ Len(stack[t]) \in {0, MaxDepth}
  /\ Leave(t, CtxInit(Enter(t)), stack[t], NoErr, FALSE, {})
  /\ last' = [last EXCEPT ![t] =
       Called("init", NoErr, NoErr, ctx[Own(t)], CtxInit(Enter(t)).log,
              NoFrame, "none")]

NextDirect ==
  \/ \E t \in threads : DirectInit(t)
  \/ \E t \in threads : TxnEnter(t)
  \/ \E t \in threads : TxnExit(t)
  \/ \E t \in threads : Update(t)
  \/ \E t \in threads : CreateEngine(t)

SpecDirect == Init /\ [][NextDirect]_vars

\* ============================================================== claims
Has(log, name) == \E i \in 1..Len(log) : log[i].op = name
HasOk(log, name, ok) == \E i \in 1..Len(log) : log[i].op = name /\ log[i].ok = ok

\* The last call of thread t was the exit of a transaction scope: of the
\* outermost one when it left transactions = 0, of an inner one otherwise.
OuterTxnExit(t) == last[t].act = "txn_exit" /\ last[t].depthIn = 1
InnerTxnExit(t) == last[t].act = "txn_exit" /\ last[t].depthIn > 1

\* C1 as stated: every outermost transaction scope sees exactly one commit or
\* rollback issued on the raw connection, issued by its exit, and the exit of
\* an inner scope issues none.
C1_ExactlyOnePhysical ==
  \A t \in Threads :
    /\ OuterTxnExit(t) =>
         /\ Len(Phys(last[t].log)) = 1
         /\ last[t].frame.phys = 1
    /\ InnerTxnExit(t) => CR(last[t].log) = <<>>

\* C1 amended: no commit or rollback is issued inside a transaction scope
\* before the exit of the outermost one, none by the exit of an inner scope;
\* the outermost exit calls commit once when no exception is propagating,
\* followed by one rollback iff that commit failed, and calls rollback once
\* otherwise; each call reaches the raw connection iff one is open.
C1_OutermostExitOnly ==
  \A t \in Threads :
    /\ InnerTxnExit(t) => CR(last[t].log) = <<>>
    /\ OuterTxnExit(t) =>
         LET cr == CR(last[t].log)
         IN /\ last[t].frame.phys = Len(Phys(last[t].log))
            /\ Len(cr) \in {1, 2}
            /\ last[t].excIn = NoErr =>
                 /\ cr[1].op = "commit"
                 /\ Len(cr) = 2 <=> ~cr[1].ok
                 /\ Len(cr) = 2 => cr[2].op = "rollback"
            /\ last[t].excIn # NoErr => Len(cr) = 1 /\ cr[1].op = "rollback"
            /\ \A i \in 1..Len(cr) : cr[i].depth = 0
            /\ \A i, j \in 1..Len(cr) : cr[i].h = cr[j].h
            /\ Len(Phys(last[t].log)) \in {0, Len(cr)}

\* C1 witness: an outermost scope that enclosed another scope and a write
\* exits; its commit fails and is followed by the rollback.
C1_Witness ==
  \E t \in Threads :
    /\ OuterTxnExit(t)
    /\ last[t].frame.nested /\ last[t].frame.writes # {}
    /\ Len(Phys(last[t].log)) = 2

\* C2 as stated: the outermost exit attempts a commit iff no enclosed body
\* (its own, or that of a transaction scope nested inside it) raised; if one
\* raised, rollback is called and commit is not attempted.
C2_CommitIffNoBodyRaised ==
  \A t \in Threads :
    OuterTxnExit(t) =>
      /\ Has(last[t].log, "commit") <=> ~last[t].frame.raised
      /\ last[t].frame.raised =>
           Has(last[t].log, "rollback") /\ ~Has(last[t].log, "commit")

\* C2 amended: the outermost exit attempts a commit iff no exception is
\* propagating out of the outermost body when it exits (an exception raised
\* in a nested scope and caught inside the outermost body does not prevent the
\* commit); if one is propagating, rollback is called and commit is not
\* attempted.
C2_CommitIffNothingPropagates ==
  \A t \in Threads :
    OuterTxnExit(t) =>
      /\ Has(last[t].log, "commit") <=> last[t].excIn = NoErr
      /\ last[t].excIn # NoErr =>
           Has(last[t].log, "rollback") /\ ~Has(last[t].log, "commit")

\* C2 witness: a nested body raised, the outermost body caught it and ended
\* normally, and the outermost exit committed on the raw connection.
C2_Witness ==
  \E t \in Threads :
    /\ OuterTxnExit(t)
    /\ last[t].frame.raised /\ last[t].excIn = NoErr
    /\ HasOk(last[t].log, "commit", TRUE)

\* The last call of thread t ended a top-level call: the exit of a scope that
\* no other scope encloses, or a statement called outside every scope.
TopLevelExit(t) ==
  last[t].act \in {"conn_exit", "txn_exit"} /\ stack[t] = <<>>
BareStatement(t) ==
  /\ last[t].act \in {"select_one", "select_int", "select", "update", "insert"}
  /\ stack[t] = <<>>
Closes(log) == Count(log, "close", TRUE) + Count(log, "close", FALSE)

IsWrite(t) == last[t].act \in {"update", "insert"}
IsStatement(t) ==
  last[t].act \in {"select_one", "select_int", "select", "update", "insert"}
Index(log, name) == CHOOSE i \in 1..Len(log) : log[i].op = name

\* C4: a write that executed commits right after executing iff transactions
\* was 0 when it executed; a write at transactions > 0, or one whose execute
\* failed, issues no commit; no commit at all is issued while transactions > 0.
C4_AutocommitIffDepthZero ==
  \A t \in Threads :
    /\ IsWrite(t) /\ HasOk(last[t].log, "execute", TRUE) =>
         LET i == Index(last[t].log, "execute")
         IN IF last[t].log[i].depth = 0
              THEN /\ i < Len(last[t].log)
                   /\ last[t].log[i + 1].op = "commit"
                   /\ last[t].log[i + 1].h = last[t].log[i].h
                   /\ Len(CR(last[t].log)) = 1
              ELSE CR(last[t].log) = <<>>
    /\ IsWrite(t) /\ ~HasOk(last[t].log, "execute", TRUE) => CR(last[t].log) = <<>>
    /\ \A i \in 1..Len(last[t].log) :
         last[t].log[i].op = "commit" => last[t].log[i].depth = 0

\* C4 witness: a write executes inside a transaction scope and commits nothing.
C4_Witness ==
  \E t \in Threads :
    /\ IsWrite(t) /\ last[t].depthIn > 0
    /\ HasOk(last[t].log, "execute", TRUE)
    /\ CR(last[t].log) = <<>>

\* The writes executed and not yet committed on thread t's raw connection.
Pending(t) ==
  IF is_init(ctx[t]) /\ ctx[t].connection[1].connection # None
    THEN ctx[t].connection[1].connection[1].pending ELSE {}

C6_BodyExceptionUnchanged ==
  \A t \in Threads :
    last[t].act \in {"conn_exit", "txn_exit"} /\ last[t].excIn # NoErr =>
      last[t].excOut = last[t].excIn

\* C7 as stated: when the commit of an outermost exit fails, rollback is
\* attempted on the same connection and the commit's failure is what the
\* caller observes.
C7_CommitFailureReraised ==
  \A t \in Threads :
    OuterTxnExit(t) /\ HasOk(last[t].log, "commit", FALSE) =>
      LET c == Index(last[t].log, "commit")
          r == Index(last[t].log, "rollback")
      IN /\ Has(last[t].log, "rollback")
         /\ c < r /\ last[t].log[r].h = last[t].log[c].h
         /\ last[t].excOut =
              IF last[t].log[c].h = 0 THEN "AttributeError(commit)" ELSE "CommitError"

\* C8: the exit of a transaction scope whose should_cleanup is true cleans the
\* context up exactly once, after every commit and rollback call of that exit,
\* closing the raw handle if one is open, whatever the commit or the rollback
\* raised.
C8_CleanupLast ==
  \A t \in Threads :
    last[t].act = "txn_exit" /\ last[t].frame.should_cleanup =>
      LET log == last[t].log
      IN /\ Count(log, "cleanup", TRUE) = 1
         /\ \A i \in 1..Len(log) :
              log[i].op \in {"commit", "rollback"} => i < Index(log, "cleanup")
         /\ last[t].rawIn # 0 =>
              /\ Closes(log) = 1
              /\ Index(log, "cleanup") < Index(log, "close")
              /\ log[Index(log, "close")].h = last[t].rawIn

\* C8 witness: the commit and the rollback of such an exit both fail on an open
\* raw handle, and the handle is closed all the same.
C8_Witness ==
  \E t \in Threads :
    /\ last[t].act = "txn_exit" /\ last[t].frame.should_cleanup
    /\ last[t].rawIn # 0
    /\ HasOk(last[t].log, "commit", FALSE) /\ HasOk(last[t].log, "rollback", FALSE)
    /\ Has(last[t].log, "close")

\* C9: no cursor is open between calls: every statement call that obtained a
\* cursor closed it, after its last use, before returning, however it ended.
C9_CursorClosed ==
  \A t \in Threads :
    /\ cursors[t] = 0
    /\ IsStatement(t) =>
         LET log == last[t].log
         IN /\ Count(log, "cursor_close", TRUE) = Count(log, "cursor", TRUE)
            /\ HasOk(log, "cursor", TRUE) =>
                 \A i \in 1..Len(log) :
                   log[i].op \in {"cursor", "execute", "commit"} =>
                     i < Index(log, "cursor_close")

\* C9 witness: a write whose autocommit failed returns with its cursor closed.
C9_Witness ==
  \E t \in Threads :
    /\ IsWrite(t) /\ last[t].excOut = "CommitError"
    /\ Has(last[t].log, "cursor_close") /\ cursors[t] = 0

\* What a statement called on an uninitialised context does around its body,
\* and what one called inside an active scope does.
BareCall(t) ==
  LET log == last[t].log
  IN /\ log # <<>> /\ log[1].op = "init"
     /\ Count(log, "init", TRUE) = 1 /\ Count(log, "cleanup", TRUE) = 1
     /\ \A i \in 1..Len(log) :
          i > Index(log, "cleanup") => log[i].op = "close"
     /\ Closes(log) = Count(log, "connect", TRUE)
     /\ last[t].excOut # "CloseError" => ~is_init(ctx[t])
ScopedCall(t) ==
  LET log == last[t].log
  IN /\ ~Has(log, "init") /\ ~Has(log, "cleanup") /\ ~Has(log, "close")
     /\ is_init(ctx[t])
     /\ last[t].rawIn # 0 =>
          /\ ~Has(log, "connect")
          /\ \A i \in 1..Len(log) : log[i].h = last[t].rawIn
          /\ ctx[t].connection[1].connection[1].h = last[t].rawIn

\* C10 as stated: every public statement call on an uninitialised context
\* initialises it, runs and cleans it up before returning; one called inside
\* an active scope neither initialises nor cleans up and uses its connection.
C10_EveryEntryPointScoped ==
  \A t \in Threads :
    IsStatement(t) => IF last[t].initIn THEN ScopedCall(t) ELSE BareCall(t)

\* C10 amended: the same, except that insert called with no column fails
\* before it reaches the statement and leaves the context untouched.
C10_BareCallSafe ==
  \A t \in Threads :
    IsStatement(t) =>
      IF last[t].excOut = "ValueError"
        THEN /\ last[t].act = "insert" /\ last[t].log = <<>>
             /\ is_init(ctx[t]) = last[t].initIn
        ELSE IF last[t].initIn THEN ScopedCall(t) ELSE BareCall(t)

\* C10 witness: a bare write opens a raw connection, fails to autocommit, and
\* has closed the connection and cleared the context when it returns.
C10_Witness ==
  \E t \in Threads :
    /\ IsWrite(t) /\ ~last[t].initIn
    /\ HasOk(last[t].log, "connect", TRUE) /\ HasOk(last[t].log, "close", TRUE)
    /\ last[t].excOut = "CommitError"
    /\ ~is_init(ctx[t])

\* The raw handle the context of thread t holds, 0 if none; the transaction
\* scopes thread t has entered and not exited.
HeldRaw(t) ==
  IF is_init(ctx[t]) /\ ctx[t].connection[1].connection # None
    THEN ctx[t].connection[1].connection[1].h ELSE 0
TxnFrames(t) ==
  Cardinality({i \in 1..Len(stack[t]) : stack[t][i].kind = "txn"})

\* C11: with several threads interleaving, every thread has its own context:
\* a call of thread t reads t's connection and transactions and leaves those
\* of every other thread unchanged; a thread's transactions counts its own
\* open transaction scopes; and no two threads hold the same raw connection.
C11_ThreadLocalContext ==
  /\ [](\A t \in threads :
          /\ ctx[t].transactions = TxnFrames(t)
          /\ \A u \in threads \ {t} :
               HeldRaw(t) # 0 => HeldRaw(u) # HeldRaw(t))
  /\ [][\A t \in threads :
          last'[t] # last[t] =>
            /\ last'[t].initIn = is_init(ctx[t])
            /\ last'[t].depthIn = ctx[t].transactions
            /\ last'[t].rawIn = HeldRaw(t)
            /\ \A u \in threads \ {t} : ctx'[u] = ctx[u]]_vars

\* C11 witness: thread 1 commits at the exit of its outermost transaction
\* scope while thread 2 is inside a transaction scope of its own with a write
\* pending on another raw connection, which stays uncommitted.
C11_Witness ==
  /\ last[1].act = "txn_exit" /\ last[1].depthIn = 1
  /\ HasOk(last[1].log, "commit", TRUE)
  /\ last[1].frame.writes # {} /\ last[1].frame.writes \subseteq committed
  /\ ctx[2].transactions > 0
  /\ HeldRaw(2) # 0 /\ HeldRaw(2) # last[1].rawIn
  /\ Pending(2) # {} /\ Pending(2) \cap committed = {}

\* C12: the engine is configured at most once: once an engine is installed no
\* call changes it, and a create_engine call made then raises DBError.
C12_EngineConfiguredOnce ==
  [][/\ engine # 0 => engine' = engine
     /\ \A t \in threads :
          last'[t] # last[t] /\ last'[t].act = "create_engine" =>
            IF engine # 0 THEN last'[t].excOut = "DBError"
            ELSE last'[t].excOut = NoErr /\ engine' # 0]_vars

\* C12 witness: a second create_engine call has failed and the engine is the
\* one the first call installed.
C12_Witness ==
  \E t \in Threads :
    /\ last[t].act = "create_engine" /\ last[t].excOut = "DBError"
    /\ engine = create_engine(0).engine

\* What the driver or the connection layer raised, as opposed to what
\* select_int itself raises.
DriverErrors ==
  {"AttributeError(connect)", "ConnectionError", "CursorError", "ExecuteError",
   "FetchError", "CloseError"}

\* C13 as stated: a select_int call whose query ran returns the single
\* column's value or fails with MultiColumnsError, nothing else; the failure
\* comes after the query ran, with the cursor closed and, for a bare call, the
\* context cleaned up.
C13_ValueOrMultiColumnsError ==
  \A t \in Threads :
    last[t].act = "select_int" =>
      /\ last[t].excOut \in {NoErr, "MultiColumnsError"} \cup DriverErrors
      /\ last[t].excOut = NoErr => last[t].ret = "value"
      /\ last[t].excOut = "MultiColumnsError" =>
           /\ HasOk(last[t].log, "execute", TRUE)
           /\ Index(last[t].log, "execute") < Index(last[t].log, "cursor_close")
           /\ cursors[t] = 0
           /\ ~last[t].initIn =>
                Has(last[t].log, "cleanup") /\ ~is_init(ctx[t])

\* C14 as stated: init() called on an initialised context fails with
\* AlreadyInitializedError and leaves the connection held and transactions
\* unchanged; called on an uninitialised one it installs a new lazy connection
\* with no raw handle and sets transactions to 0.
C14_InitRefusesWhenInitialised ==
  \A t \in Threads :
    last[t].act = "init" =>
      IF last[t].initIn
        THEN /\ last[t].excOut = "AlreadyInitializedError"
             /\ ctx[t].transactions = last[t].depthIn
             /\ HeldRaw(t) = last[t].rawIn
        ELSE /\ last[t].excOut = NoErr
             /\ is_init(ctx[t]) /\ HeldRaw(t) = 0
             /\ ctx[t].transactions = 0

\* C15: in every reachable state transactions is at least 0 and equals the
\* number of transaction scopes entered and not exited, and the context holds
\* a connection whenever transactions is above 0.
C15_DepthCountsScopes ==
  \A t \in Threads :
    /\ ctx[t].transactions >= 0
    /\ ctx[t].transactions = TxnFrames(t)
    /\ ctx[t].transactions > 0 => is_init(ctx[t])

\* C15 witness: an inner transaction scope has just been left by an exception,
\* the enclosing one is still open on the connection.
C15_Witness ==
  \E t \in Threads :
    /\ last[t].act = "txn_exit" /\ last[t].depthIn = 2 /\ last[t].excIn # NoErr
    /\ ctx[t].transactions = 1 /\ TxnFrames(t) = 1
    /\ is_init(ctx[t])

IsEnter(t) == last[t].act \in {"conn_enter", "txn_enter"}
IsExit(t) == last[t].act \in {"conn_exit", "txn_exit"}

\* C16: a scope's should_cleanup is true exactly when its entry initialised
\* the context; of the scopes open on a thread only the outermost can have it
\* true; a scope entered inside another one does not initialise on entry and
\* does not clean up on exit, and an exit cleans up iff its flag is true.
C16_OnlyInitialiserCleansUp ==
  \A t \in Threads :
    /\ IsEnter(t) =>
         /\ stack[t][Len(stack[t])].should_cleanup = ~last[t].initIn
         /\ Has(last[t].log, "init") <=> ~last[t].initIn
         /\ Len(stack[t]) > 1 => last[t].initIn
    /\ \A i \in 2..Len(stack[t]) : ~stack[t][i].should_cleanup
    /\ stack[t] # <<>> => is_init(ctx[t])
    /\ IsExit(t) =>
         /\ Has(last[t].log, "cleanup") <=> last[t].frame.should_cleanup
         /\ stack[t] # <<>> =>
              ~Has(last[t].log, "cleanup") /\ ~Has(last[t].log, "close")

\* C16 witness: a transaction scope entered inside the scope that initialised
\* the context commits on the raw connection at its exit and leaves the
\* connection open for the enclosing scope.
C16_Witness ==
  \E t \in Threads :
    /\ last[t].act = "txn_exit" /\ ~last[t].frame.should_cleanup
    /\ HasOk(last[t].log, "commit", TRUE) /\ ~Has(last[t].log, "cleanup")
    /\ Len(stack[t]) = 1 /\ stack[t][1].should_cleanup
    /\ HeldRaw(t) = last[t].rawIn /\ HeldRaw(t) # 0

\* C17: the exit of the outermost transaction scope chooses commit or rollback
\* by one thing only, whether an exception is propagating out of the outermost
\* body: the exit of an inner scope left by an exception issues nothing and
\* leaves the writes pending, and when that exception was caught inside the
\* outermost body the outermost exit commits, the writes of the inner scope
\* included.
C17_OutermostOutcomeDecides ==
  \A t \in Threads :
    /\ OuterTxnExit(t) =>
         /\ CR(last[t].log) # <<>>
         /\ CR(last[t].log)[1].op = "commit" <=> last[t].excIn = NoErr
         /\ /\ last[t].frame.raised /\ last[t].excIn = NoErr
            /\ HasOk(last[t].log, "commit", TRUE)
            => /\ ~Has(last[t].log, "rollback")
               /\ last[t].frame.writes \subseteq committed
    /\ InnerTxnExit(t) /\ last[t].excIn # NoErr =>
         /\ CR(last[t].log) = <<>>
         /\ \A i \in 1..Len(stack[t]) :
              IsOuterTxn(stack[t], i) =>
                /\ stack[t][i].raised
                /\ stack[t][i].writes \subseteq Pending(t)

\* C17 witness: a write ran in an inner transaction scope, the inner body
\* raised, the outermost body caught that and ended normally, and the
\* outermost exit committed the write.
C17_Witness ==
  \E t \in Threads :
    /\ OuterTxnExit(t) /\ last[t].excIn = NoErr /\ last[t].excOut = NoErr
    /\ last[t].frame.nested /\ last[t].frame.raised
    /\ last[t].frame.writes # {} /\ last[t].frame.writes \subseteq committed

\* What the driver itself raises from commit() and rollback().
DriverCommitErrors == {"CommitError", "RollbackError"}

\* Every commit and rollback of the log was called on an absent raw handle and
\* failed.
AllOnAbsentHandle(log) ==
  \A i \in 1..Len(log) :
    log[i].op \in {"commit", "rollback"} => log[i].h = 0 /\ ~log[i].ok

C19_ContextResetAfterTopLevelExit ==
  \A t \in Threads :
    /\ TopLevelExit(t) =>
         /\ ~is_init(ctx[t]) /\ HeldRaw(t) = 0
         /\ ctx[t].transactions = 0
    /\ IsEnter(t) /\ Len(stack[t]) = 1 =>
         /\ ~last[t].initIn
         /\ Has(last[t].log, "init") /\ HeldRaw(t) = 0

\* The raw handle the context of thread t holds has had close() called on it.
HeldRawClosed(t) ==
  HeldRaw(t) # 0 /\ ctx[t].connection[1].connection[1].closed

\* C20 as stated: no cursor request, commit or rollback is issued on a raw
\* handle after close() was called on it, and close() is called at most once
\* on a handle.
C20_NoUseAfterClose ==
  \A t \in Threads :
    LET log == last[t].log
    IN /\ \A i, j \in 1..Len(log) :
            log[i].op = "close" /\ i < j => log[j].h # log[i].h
       /\ HeldRawClosed(t) =>
            \A i \in 1..Len(log) :
              log[i].h = HeldRaw(t) /\ log[i].op \notin {"cleanup", "close"} =>
                \E j \in (i + 1)..Len(log) : log[j].op = "close"

====
